---------------------------- MODULE Spec2Model ----------------------------
(***************************************************************************)
(* Markd-AI: extraction of PDF annotations (markdai/core.py), the streamed *)
(* summary generator, the command-line entry point, and the publishing     *)
(* script (scripts/publish.py).                                            *)
(*                                                                         *)
(* Text is modelled as a sequence of symbols (one-character strings, or a  *)
(* fixed literal of the source kept as one symbol).  Python dicts are      *)
(* functions whose DOMAIN is the set of keys present.                      *)
(***************************************************************************)
EXTENDS Naturals, Sequences, FiniteSets, TLC

VARIABLES
    pc,           \* position of the running entry point
    doc,          \* reader.pages: the pages of the PDF, each a dict
    annotations,  \* the list extract_pdf_annotations returned
    gen,          \* state of the generator stream_annotations_to_markdown
    handles,      \* number of genai.GenerativeModel handles created
    requests,     \* prompts submitted to model.generate_content
    emitted,      \* chunks the backend stream has produced so far
    delivered,    \* chunks the generator has yielded to its caller
    requested,    \* number of next() calls the caller has made
    streamOpen,   \* the backend streaming connection is open
    raised,       \* exception that left the running function, or NoError
    argv,         \* the command-line options given, as a dict
    env,          \* os.environ restricted to the variables the code reads
    fileStatus,   \* what PdfReader(pdf_path) finds at the path
    configured,   \* genai.configure has been called
    opened,       \* PdfReader(pdf_path) has been called
    summarized,   \* record lists main handed to the summarizer
    printed,      \* diagnostics printed, in order
    installed,    \* modules "pip show" finds
    fs,           \* files the publishing script looks at
    cmdOk,        \* whether the build / upload subprocess exits 0
    commands      \* subprocess commands run, in order

vars == <<pc, doc, annotations, gen, handles, requests, emitted, delivered,
          requested, streamOpen, raised, argv, env, fileStatus,
          configured, opened, summarized, printed, installed, fs, cmdOk,
          commands>>

streamVars == <<gen, handles, requests, emitted, delivered, requested, streamOpen>>
cliVars    == <<argv, env, fileStatus, configured, opened, summarized>>
pubVars    == <<installed, fs, cmdOk, commands>>

-----------------------------------------------------------------------------
(* Bounds of the model *)

MaxPages  == 2   \* pages in a document
MaxAnnots == 3   \* annotation entries in a document, all pages together
MaxChunks == 2   \* chunks the backend emits before it must end the stream

-----------------------------------------------------------------------------
(* Values *)

NoError == "NoError"

Highlight == <<"/", "Highlight">>
Text      == <<"/", "Text">>
Link      == <<"/", "Link">>

Whitespace == {" ", "\n", "\t"}

\* Annotation objects as annot.get_object() returns them: dicts with PDF-name keys.
AnnotObjects ==
    { ("/Subtype" :> Highlight) @@ ("/Contents" :> <<" ", "x">>) @@ ("/T" :> <<"a">>),
      ("/Subtype" :> Text),
      ("/Subtype" :> Link) @@ ("/Contents" :> <<"y">>),
      ("/Contents" :> <<"z">>) }

\* dict.get(key, default)
Get(d, key, default) == IF key \in DOMAIN d THEN d[key] ELSE default

\* the dicts with some of the keys, each with one of the values
Dicts(keys, values) == UNION { [D -> values] : D \in SUBSET keys }

NoAnnotsPage == [k \in {} |-> <<>>]
PageWith(list) == ("/Annots" :> list)

SeqsUpTo(S, n) == UNION { [1..k -> S] : k \in 0..n }

AnnotCount(page) == IF "/Annots" \in DOMAIN page THEN Len(page["/Annots"]) ELSE 0

PageChoices(n) == {NoAnnotsPage} \cup { PageWith(l) : l \in SeqsUpTo(AnnotObjects, n) }

RECURSIVE DocsOf(_, _)
DocsOf(p, n) ==
    IF p = 0 THEN { <<>> }
    ELSE UNION { { <<pg>> \o d : d \in DocsOf(p - 1, n - AnnotCount(pg)) }
                 : pg \in PageChoices(n) }

Docs == UNION { DocsOf(p, MaxAnnots) : p \in 0..MaxPages }

Chunks == {"chunk_a", "chunk_b"}

BackendErrors == {"PermissionDenied", "BadRequest", "BackendError"}

-----------------------------------------------------------------------------
(* extract_pdf_annotations *)

\* faulty variant of IsWanted: any entry that has a subtype is kept
IsWantedAnySubtype(annot_obj) == "/Subtype" \in DOMAIN annot_obj

\* subtype in ("/Highlight", "/Text"); an absent subtype is None, in neither
IsWanted(annot_obj) ==
    /\ "/Subtype" \in DOMAIN annot_obj
    /\ annot_obj["/Subtype"] \in {Highlight, Text}

\* str(x): /Contents holds a text string, which str returns unchanged
Str(x) == x

\* faulty variant of PageNumber: the 0-based index is stored
PageNumberZeroBased(page_num) == page_num

\* enumerate(reader.pages) counts from 0; the record holds page_num + 1
PageNumber(page_num) == page_num + 1

AnnotationRecord(annot_obj, page_num) ==
    [ page          |-> PageNumber(page_num),
      type          |-> annot_obj["/Subtype"],
      contents      |-> Str(Get(annot_obj, "/Contents", <<>>)),
      author        |-> Get(annot_obj, "/T", <<>>),
      creation_date |-> Get(annot_obj, "/CreationDate", <<>>),
      rect          |-> Get(annot_obj, "/Rect", <<>>) ]

\* the inner loop: for annot in page["/Annots"], from the i-th entry on
RECURSIVE PageAnnotations(_, _, _)
PageAnnotations(annots, page_num, i) ==
    IF i > Len(annots) THEN <<>>
    ELSE (IF IsWanted(annots[i])
          THEN << AnnotationRecord(annots[i], page_num) >>
          ELSE <<>>)
         \o PageAnnotations(annots, page_num, i + 1)

\* the outer loop: for page_num, page in enumerate(reader.pages)
RECURSIVE PagesFrom(_, _)
PagesFrom(pages, page_num) ==
    IF page_num >= Len(pages) THEN <<>>
    ELSE (IF "/Annots" \in DOMAIN pages[page_num + 1]
          THEN PageAnnotations(pages[page_num + 1]["/Annots"], page_num, 1)
          ELSE <<>>)
         \o PagesFrom(pages, page_num + 1)

extract_pdf_annotations(pages) == PagesFrom(pages, 0)

-----------------------------------------------------------------------------
(* stream_annotations_to_markdown: the prompt *)

NoAnnotationsMsg == "no annotations found to process"

Preamble ==
    << <<"You are an efficient assistant summarising PDF annotations as Markdown.">>,
       <<"Convert the structured annotation data below to a Markdown document; say so when an annotation has no content.">>,
       <<"Group the annotations by page; for each give its content and type.", "\n">> >>

DigitSymbol(d) == <<"0", "1", "2", "3", "4", "5", "6", "7", "8", "9">>[d + 1]

\* f"{page}" of an int
RECURSIVE IntToStr(_)
IntToStr(n) ==
    IF n < 10 THEN << DigitSymbol(n) >>
    ELSE IntToStr(n \div 10) \o << DigitSymbol(n % 10) >>

\* s.strip()
RECURSIVE LStrip(_)
LStrip(s) ==
    IF s # <<>> /\ Head(s) \in Whitespace THEN LStrip(Tail(s)) ELSE s

RECURSIVE RStrip(_)
RStrip(s) ==
    IF s # <<>> /\ s[Len(s)] \in Whitespace
    THEN RStrip(SubSeq(s, 1, Len(s) - 1)) ELSE s

Strip(s) == RStrip(LStrip(s))

\* s.replace('/', '')
RECURSIVE RemoveSlash(_)
RemoveSlash(s) ==
    IF s = <<>> THEN <<>>
    ELSE (IF Head(s) = "/" THEN <<>> ELSE << Head(s) >>) \o RemoveSlash(Tail(s))

\* faulty variant of BlockParts: a record without content gets no block
BlockPartsSkipEmpty(annot) ==
    IF Strip(Get(annot, "contents", <<"N/A">>)) = <<>> THEN <<>>
    ELSE << <<"- page ">> \o IntToStr(annot.page) \o <<":">>,
            <<"  - type: ">> \o RemoveSlash(annot.type),
            <<"  - content: ">> \o Strip(annot.contents) >>

\* the three prompt_parts.append calls of one loop iteration
BlockParts(annot) ==
    LET content    == Strip(Get(annot, "contents", <<"N/A">>))
        annot_type == RemoveSlash(Str(Get(annot, "type", Text)))
        page       == IF "page" \in DOMAIN annot THEN IntToStr(annot["page"])
                      ELSE <<"unknown">>
    IN << <<"- page ">> \o page \o <<":">>,
          <<"  - type: ">> \o annot_type,
          <<"  - content: ">> \o content >>

RECURSIVE PromptParts(_, _)
PromptParts(records, i) ==
    IF i > Len(records) THEN <<>>
    ELSE BlockParts(records[i]) \o PromptParts(records, i + 1)

\* "\n".join(parts)
RECURSIVE Join(_)
Join(parts) ==
    IF parts = <<>> THEN <<>>
    ELSE IF Len(parts) = 1 THEN parts[1]
    ELSE parts[1] \o <<"\n">> \o Join(Tail(parts))

BuildPrompt(records) == Join(Preamble \o PromptParts(records, 1))

\* faulty variant of NoAnnotations: the empty-list short circuit never taken
NoAnnotationsNever(records) == FALSE

\* not annotations
NoAnnotations(records) == records = <<>>

\* faulty variant of Forward: the first chunk is yielded again instead of the next
ForwardFirst(stream, k) == stream[1]

\* yield from response_stream: the k-th element yielded is the k-th the backend gave
Forward(stream, k) == stream[k]

-----------------------------------------------------------------------------
(* Values of the variables a specification does not use *)

IdleStream ==
    /\ gen = "none" /\ handles = 0 /\ requests = <<>> /\ emitted = <<>>
    /\ delivered = <<>> /\ requested = 0 /\ streamOpen = FALSE

IdleCli ==
    /\ argv = <<>> /\ fileStatus = "ok" /\ configured = FALSE
    /\ opened = FALSE /\ summarized = <<>>

IdlePub ==
    /\ installed = {} /\ fs = {} /\ cmdOk = {} /\ commands = <<>>

-----------------------------------------------------------------------------
(* The library used as the pipeline of the two functions: extract, then    *)
(* iterate over the summary generator.                                     *)

InitStream ==
    /\ pc = "extract"
    /\ doc \in Docs
    /\ annotations = <<>>
    /\ raised = NoError
    /\ printed = <<>>
    /\ env = <<>>
    /\ IdleStream /\ IdleCli /\ IdlePub

\* annotations = extract_pdf_annotations(path)
Extract ==
    /\ pc = "extract"
    /\ annotations' = extract_pdf_annotations(doc)
    /\ pc' = "call"
    /\ UNCHANGED <<doc, raised, printed, env, streamVars, cliVars, pubVars>>

\* stream_annotations_to_markdown(annotations): calling a generator function
\* creates the generator and runs none of its body
CallStream ==
    /\ pc = "call"
    /\ gen' = "created"
    /\ pc' = "consume"
    /\ UNCHANGED <<doc, annotations, raised, printed, env, handles, requests,
                   emitted, delivered, requested, streamOpen, cliVars, pubVars>>

\* One step of "yield from response_stream": the generator asks the backend
\* stream for its next element.  The backend gives a chunk, which is yielded
\* as it is; or ends the stream, and the generator returns; or fails, and the
\* exception leaves the generator.  A rejected generate_content request is
\* the failure before the first chunk.
Pull ==
    \/ /\ Len(emitted) < MaxChunks
       /\ \E c \in Chunks : emitted' = Append(emitted, c)
       /\ delivered' = Append(delivered, Forward(emitted', Len(delivered) + 1))
       /\ gen' = "delegating"
       /\ streamOpen' = TRUE
       /\ UNCHANGED raised
    \/ /\ gen' = "done"
       /\ streamOpen' = FALSE
       /\ UNCHANGED <<emitted, delivered, raised>>
    \/ /\ \E e \in BackendErrors : raised' = e
       /\ gen' = "raised"
       /\ streamOpen' = FALSE
       /\ UNCHANGED <<emitted, delivered>>

\* first next(): the list is empty, the generator yields the message
NextNoAnnotations ==
    /\ pc = "consume" /\ gen = "created"
    /\ NoAnnotations(annotations)
    /\ requested' = requested + 1
    /\ delivered' = << NoAnnotationsMsg >>
    /\ gen' = "yielded_msg"
    /\ UNCHANGED <<pc, doc, annotations, raised, printed, env, handles, requests,
                   emitted, streamOpen, cliVars, pubVars>>

\* next() after the message: the return statement ends the generator
NextReturn ==
    /\ pc = "consume" /\ gen = "yielded_msg"
    /\ requested' = requested + 1
    /\ gen' = "done"
    /\ UNCHANGED <<pc, doc, annotations, raised, printed, env, handles, requests,
                   emitted, delivered, streamOpen, cliVars, pubVars>>

\* first next(), records present: build the prompt, create the model handle,
\* request streamed content, and delegate to the response stream
NextRequest ==
    /\ pc = "consume" /\ gen = "created"
    /\ ~NoAnnotations(annotations)
    /\ requested' = requested + 1
    /\ handles' = handles + 1
    /\ requests' = Append(requests, BuildPrompt(annotations))
    /\ Pull
    /\ UNCHANGED <<pc, doc, annotations, printed, env, cliVars, pubVars>>

\* a later next(): the generator is suspended inside the yield from
NextChunk ==
    /\ pc = "consume" /\ gen = "delegating"
    /\ requested' = requested + 1
    /\ Pull
    /\ UNCHANGED <<pc, doc, annotations, printed, env, handles, requests,
                   cliVars, pubVars>>

\* The caller abandons the generator (close(), or dropping the last reference).
\* GeneratorExit is raised at the suspended yield; inside the yield from, close()
\* is passed on to the sub-iterator.  The function holds no finally, no with and
\* no call that releases the response stream, so whether the connection is
\* released then is left to the backend library and the garbage collector.
Close ==
    /\ pc = "consume" /\ gen \in {"created", "yielded_msg", "delegating"}
    /\ gen' = "closed"
    /\ streamOpen' \in (IF gen = "delegating" THEN BOOLEAN ELSE {FALSE})
    /\ UNCHANGED <<pc, doc, annotations, raised, printed, env, handles, requests,
                   emitted, delivered, requested, cliVars, pubVars>>

NextStream ==
    \/ Extract
    \/ CallStream
    \/ NextNoAnnotations
    \/ NextReturn
    \/ NextRequest
    \/ NextChunk
    \/ Close

SpecStream == InitStream /\ [][NextStream]_vars

-----------------------------------------------------------------------------
(* markdai/core.py main: the command-line entry point *)

PyNone == "<None>"

\* faulty variant of Falsy: only the empty string counts as a missing key
FalsyOnlyEmpty(x) == x = ""

\* not x, for x a string or None
Falsy(x) == x \in {PyNone, ""}

\* args.api_key: --api_key, with default os.environ.get("GOOGLE_API_KEY")
ApiKey == Get(argv, "--api_key", Get(env, "GOOGLE_API_KEY", PyNone))

\* faulty variant of Caught: the generic "except Exception" clause is missing
CaughtOnlyNamed(exc) == exc \in {"FileNotFoundError", "PermissionDenied", "BadRequest"}

\* the except clauses of main: every Exception raised in the try block is caught
Caught(exc) ==
    exc \in {"FileNotFoundError", "PermissionDenied", "BadRequest",
             "ParseError", "BackendError", "ValueError"}

\* what the matching except clause prints
Diagnostic(exc) ==
    IF exc = "FileNotFoundError" THEN << "error: file not found" >>
    ELSE IF exc = "PermissionDenied"
         THEN << "API permission error", "check that the API key is valid and the Gemini API enabled" >>
    ELSE IF exc = "BadRequest"
         THEN << "API request error", "the API is usually not supported in your region; consider a VPN" >>
    ELSE << "unexpected error" >>

\* what PdfReader(pdf_path) raises
OpenError == IF fileStatus = "missing" THEN "FileNotFoundError" ELSE "ParseError"

InitMain ==
    /\ pc = "check_key"
    /\ argv \in Dicts({"--api_key"}, {"", "key1"})
    /\ env \in Dicts({"GOOGLE_API_KEY"}, {"", "key2"})
    /\ fileStatus \in {"ok", "missing", "corrupt"}
    /\ doc \in Docs
    /\ annotations = <<>>
    /\ raised = NoError
    /\ printed = <<>>
    /\ configured = FALSE /\ opened = FALSE /\ summarized = <<>>
    /\ IdleStream /\ IdlePub

\* if not args.api_key: raise ValueError(...), outside the try block
CheckKey ==
    /\ pc = "check_key"
    /\ IF Falsy(ApiKey)
       THEN raised' = "ValueError" /\ pc' = "exited"
       ELSE raised' = raised /\ pc' = "configure"
    /\ UNCHANGED <<doc, annotations, printed, env, streamVars, cliVars, pubVars>>

\* genai.configure(api_key=args.api_key)
Configure ==
    /\ pc = "configure"
    /\ configured' = TRUE
    /\ pc' = "try"
    /\ UNCHANGED <<doc, annotations, raised, printed, env, streamVars, argv,
                   fileStatus, opened, summarized, pubVars>>

\* the first statements of the try block: the progress line and
\* extract_pdf_annotations(args.pdf_path), with the except clauses
MainExtract ==
    /\ pc = "try"
    /\ opened' = TRUE
    /\ IF fileStatus = "ok"
       THEN /\ annotations' = extract_pdf_annotations(doc)
            /\ printed' = Append(printed, "extracting annotations")
            /\ pc' = "extracted"
            /\ UNCHANGED raised
       ELSE /\ UNCHANGED annotations
            /\ IF Caught(OpenError)
               THEN /\ printed' = Append(printed, "extracting annotations")
                                      \o Diagnostic(OpenError)
                    /\ pc' = "returned"
                    /\ UNCHANGED raised
               ELSE /\ printed' = Append(printed, "extracting annotations")
                    /\ raised' = OpenError
                    /\ pc' = "exited"
    /\ UNCHANGED <<doc, env, streamVars, argv, fileStatus, configured,
                   summarized, pubVars>>

\* if not annotations: print(...); return
MainNoAnnotations ==
    /\ pc = "extracted"
    /\ annotations = <<>>
    /\ printed' = Append(printed, "no annotations found in file")
    /\ pc' = "returned"
    /\ UNCHANGED <<doc, annotations, raised, env, streamVars, cliVars, pubVars>>

\* print("found N annotations. summarising with AI..."); the call of
\* stream_annotations_to_markdown and the loop printing its chunks are
\* commented out, so the try block ends here
MainFound ==
    /\ pc = "extracted"
    /\ annotations # <<>>
    /\ printed' = Append(printed, "found annotations, summarising with AI")
    /\ pc' = "returned"
    /\ UNCHANGED <<doc, annotations, raised, env, streamVars, cliVars, pubVars>>

NextMain ==
    \/ CheckKey
    \/ Configure
    \/ MainExtract
    \/ MainNoAnnotations
    \/ MainFound

SpecMain == InitMain /\ [][NextMain]_vars

-----------------------------------------------------------------------------
(* scripts/publish.py *)

Getenv(name) == Get(env, name, PyNone)

\* run_command: the command is run; True iff it exits 0
run_command(command) == Append(commands, command)

InitPublish ==
    /\ pc = "check_build"
    /\ env \in Dicts({"TWINE_USERNAME", "TWINE_PASSWORD"}, {"", "secret"})
    /\ installed \in SUBSET {"build", "twine"}
    /\ fs \in SUBSET {"pyproject.toml", "dist"}
    /\ cmdOk \in SUBSET {"build", "upload"}
    /\ commands = <<>>
    /\ printed = <<>>
    /\ raised = NoError
    /\ doc = <<>> /\ annotations = <<>>
    /\ IdleStream /\ IdleCli

\* faulty variant of CheckTool: a missing tool is reported but the script goes on
CheckToolNoExit(module, next) ==
    /\ pc = "check_" \o module
    /\ commands' = run_command("pip show " \o module)
    /\ printed' = IF module \in installed THEN printed
                  ELSE Append(printed, "please install " \o module)
    /\ pc' = next
    /\ UNCHANGED raised
    /\ UNCHANGED <<doc, annotations, env, streamVars, cliVars, installed, fs, cmdOk>>

\* one iteration of "for module in required_modules": pip show, sys.exit(1)
\* when it fails
CheckTool(module, next) ==
    /\ pc = "check_" \o module
    /\ commands' = run_command("pip show " \o module)
    /\ IF module \in installed
       THEN pc' = next /\ UNCHANGED <<printed, raised>>
       ELSE /\ printed' = Append(printed, "please install " \o module)
            /\ raised' = "SystemExit(1)"
            /\ pc' = "exited"
    /\ UNCHANGED <<doc, annotations, env, streamVars, cliVars, installed, fs, cmdOk>>

CheckBuild == CheckTool("build", "check_twine")
CheckTwine == CheckTool("twine", "check_env")

\* the check of TWINE_USERNAME and TWINE_PASSWORD: a warning, nothing more
CheckEnv ==
    /\ pc = "check_env"
    /\ printed' = IF Falsy(Getenv("TWINE_USERNAME")) \/ Falsy(Getenv("TWINE_PASSWORD"))
                  THEN printed \o << "warning: TWINE_USERNAME or TWINE_PASSWORD not set",
                                     "enter the API token on the command line or configure ~/.pypirc" >>
                  ELSE printed
    /\ pc' = "build"
    /\ UNCHANGED <<doc, annotations, raised, env, streamVars, cliVars, pubVars>>

\* if not build_package(): sys.exit(1)
build_package ==
    /\ pc = "build"
    /\ IF "pyproject.toml" \notin fs
       THEN /\ printed' = printed \o << "building", "error: pyproject.toml missing" >>
            /\ raised' = "SystemExit(1)" /\ pc' = "exited"
            /\ UNCHANGED <<commands, fs>>
       ELSE /\ commands' = run_command("python -m build")
            /\ IF "build" \in cmdOk
               THEN /\ fs' = fs \cup {"dist"}
                    /\ printed' = Append(printed, "building")
                    /\ pc' = "upload"
                    /\ UNCHANGED raised
               ELSE /\ printed' = printed \o << "building", "error: build failed" >>
                    /\ raised' = "SystemExit(1)" /\ pc' = "exited"
                    /\ UNCHANGED fs
    /\ UNCHANGED <<doc, annotations, env, streamVars, cliVars, installed, cmdOk>>

\* if not upload_package(args.repository): sys.exit(1); then the success lines
upload_package ==
    /\ pc = "upload"
    /\ IF "dist" \notin fs
       THEN /\ printed' = printed \o << "uploading", "error: dist missing or empty" >>
            /\ raised' = "SystemExit(1)" /\ pc' = "exited"
            /\ UNCHANGED commands
       ELSE /\ commands' = run_command("python -m twine upload")
            /\ IF "upload" \in cmdOk
               THEN /\ printed' = printed \o << "uploading", "uploaded" >>
                    /\ pc' = "returned"
                    /\ UNCHANGED raised
               ELSE /\ printed' = printed \o << "uploading", "error: upload failed" >>
                    /\ raised' = "SystemExit(1)" /\ pc' = "exited"
    /\ UNCHANGED <<doc, annotations, env, streamVars, cliVars, installed, fs, cmdOk>>

NextPublish ==
    \/ CheckBuild
    \/ CheckTwine
    \/ CheckEnv
    \/ build_package
    \/ upload_package

SpecPublish == InitPublish /\ [][NextPublish]_vars

-----------------------------------------------------------------------------
(* Properties of the pipeline, checked under SpecStream *)

Positions(d) ==
    UNION { { <<p, i>> : i \in 1..AnnotCount(d[p]) } : p \in 1..Len(d) }

EntryAt(d, q) == d[q[1]]["/Annots"][q[2]]

Qualifying(d) ==
    { q \in Positions(d) :
        Get(EntryAt(d, q), "/Subtype", <<>>) \in {Highlight, Text} }

\* position r is visited no later than position q in the page-by-page traversal
NotAfter(r, q) == r[1] < q[1] \/ (r[1] = q[1] /\ r[2] <= q[2])

Rank(d, q) == Cardinality({ r \in Qualifying(d) : NotAfter(r, q) })

\* C1: a document with no Highlight or Text annotation extracts to the empty
\* list, and the summary of an empty list is exactly one chunk, the "no
\* annotations" message, after which the generator ends; no model handle is
\* created and no generate-content request is issued.
C1_EmptyShortCircuit ==
    /\ (pc # "extract" /\ Qualifying(doc) = {}) => annotations = <<>>
    /\ (gen # "none" /\ annotations = <<>>) =>
          /\ handles = 0 /\ requests = <<>> /\ emitted = <<>>
          /\ ~streamOpen /\ raised = NoError
          /\ gen \in {"created", "yielded_msg", "done", "closed"}
          /\ delivered = IF requested = 0 THEN <<>> ELSE << NoAnnotationsMsg >>
          /\ gen = "yielded_msg" => requested = 1
          /\ gen = "done" => requested = 2

C1_Witness ==
    /\ gen = "done" /\ annotations = <<>>
    /\ Len(doc) = 2 /\ AnnotCount(doc[1]) = 2
    /\ delivered = << NoAnnotationsMsg >> /\ handles = 0 /\ requests = <<>>

\* C5: every extracted record has kind Highlight or Text; entries of another
\* subtype, or of none, leave no record and raise no error.
C5_FilterCompleteness ==
    /\ pc # "extract" =>
          /\ \A k \in 1..Len(annotations) : annotations[k].type \in {Highlight, Text}
          /\ Len(annotations) <= Cardinality(Qualifying(doc))
    /\ pc = "call" => raised = NoError

C5_Witness ==
    /\ pc # "extract"
    /\ Len(annotations) = 1
    /\ \E q \in Positions(doc) : Get(EntryAt(doc, q), "/Subtype", <<>>) = Link
    /\ \E q \in Positions(doc) : "/Subtype" \notin DOMAIN EntryAt(doc, q)

\* C6: the extracted list is the qualifying entries in traversal order (pages
\* ascending, stored order within a page), one record each, duplicates kept,
\* each with the 1-based number of its page.
C6_TraversalOrder ==
    pc # "extract" =>
        /\ Len(annotations) = Cardinality(Qualifying(doc))
        /\ \A q \in Qualifying(doc) :
              LET rec == annotations[Rank(doc, q)]
                  a   == EntryAt(doc, q)
              IN /\ rec.page = q[1]
                 /\ rec.type = a["/Subtype"]
                 /\ rec.contents = Get(a, "/Contents", <<>>)
                 /\ rec.author = Get(a, "/T", <<>>)

C6_Witness ==
    /\ pc # "extract"
    /\ Len(doc) = 2 /\ AnnotCount(doc[1]) = 0 /\ AnnotCount(doc[2]) = 3
    /\ Len(annotations) = 3
    /\ annotations[1].type = Text
    /\ annotations[2] = annotations[3]
    /\ annotations[2].type = Highlight /\ annotations[2].page = 2

\* C7: once the summary sequence is finished or abandoned, no backend stream
\* is left open.
C7_StreamReleased ==
    gen \in {"done", "closed", "raised"} => ~streamOpen

\* the first "\n" of s, or 0
RECURSIVE FirstNewline(_, _)
FirstNewline(s, i) ==
    IF i > Len(s) THEN 0
    ELSE IF s[i] = "\n" THEN i ELSE FirstNewline(s, i + 1)

RECURSIVE SplitLines(_)
SplitLines(s) ==
    LET i == FirstNewline(s, 1)
    IN IF i = 0 THEN << s >>
       ELSE << SubSeq(s, 1, i - 1) >> \o SplitLines(SubSeq(s, i + 1, Len(s)))

\* c is s without its leading and trailing whitespace
Trimmed(s, c) ==
    /\ \E i \in 1..(Len(s) + 1) : \E j \in 0..Len(s) :
          /\ c = SubSeq(s, i, j)
          /\ \A m \in 1..Len(s) : (m < i \/ m > j) => s[m] \in Whitespace
    /\ c # <<>> => (c[1] \notin Whitespace /\ c[Len(c)] \notin Whitespace)

KindLabel(type) == IF type = Highlight THEN "Highlight" ELSE "Text"

\* C8: the prompt sent for a non-empty record list is the preamble followed by
\* one three-line block per record, in input order, none left out; a record
\* with no content has its block, with the empty string after the label.
C8_PromptBlocks ==
    \A r \in 1..Len(requests) :
        LET lines == SplitLines(requests[r])
            n     == Len(annotations)
        IN /\ n >= 1
           /\ Len(lines) = 4 + 3 * n
           /\ lines[1] = Preamble[1]
           /\ lines[2] = Preamble[2]
           /\ lines[3] = << Preamble[3][1] >>
           /\ lines[4] = <<>>
           /\ \A k \in 1..n :
                 LET rec == annotations[k]
                     b   == 4 + 3 * (k - 1)
                 IN /\ lines[b + 1] = << "- page ", DigitSymbol(rec.page), ":" >>
                    /\ lines[b + 2] = << "  - type: ", KindLabel(rec.type) >>
                    /\ Head(lines[b + 3]) = "  - content: "
                    /\ Trimmed(rec.contents, Tail(lines[b + 3]))

C8_Witness ==
    /\ Len(requests) = 1
    /\ Len(annotations) = 2
    /\ annotations[1].page = 1 /\ annotations[1].type = Highlight
    /\ annotations[1].contents = <<" ", "x">>
    /\ annotations[2].page = 2 /\ annotations[2].type = Text
    /\ annotations[2].contents = <<>>
    /\ SplitLines(requests[1])[10] = << "  - content: " >>

\* C10: for a non-empty list the generator hands on each backend chunk as it
\* is, in order, one per request of the caller: what was delivered is what the
\* backend emitted, nothing fetched is held back, no more chunks have been
\* fetched than the caller asked for, and at the end nothing is missing.
C10_LazyForwarding ==
    annotations # <<>> =>
        /\ Len(delivered) = Len(emitted)
        /\ \A k \in 1..Len(delivered) : delivered[k] = emitted[k]
        /\ Len(emitted) <= requested
        /\ gen = "done" => delivered = emitted

C10_Witness ==
    /\ gen = "done"
    /\ Len(delivered) = 2
    /\ delivered[1] # delivered[2]
    /\ delivered = emitted
    /\ requested = 3

-----------------------------------------------------------------------------
(* Properties of the command-line entry point, checked under SpecMain *)

KeyAbsent == "--api_key" \notin DOMAIN argv /\ "GOOGLE_API_KEY" \notin DOMAIN env

\* C2: with neither --api_key nor GOOGLE_API_KEY the run ends with the
\* credential error and nothing else has happened: the backend is not
\* configured, the PDF is not opened, no content is requested.  In every run
\* the credential check comes before the configuration, and the configuration
\* before the PDF is opened.
C2_CredentialFirst ==
    /\ KeyAbsent =>
          /\ ~configured /\ ~opened
          /\ handles = 0 /\ requests = <<>> /\ annotations = <<>>
          /\ pc \in {"check_key", "exited"}
          /\ pc = "exited" => raised = "ValueError"
    /\ configured => pc # "check_key"
    /\ opened => configured
    /\ (handles > 0 \/ requests # <<>>) => opened

C2_Witness ==
    /\ KeyAbsent /\ pc = "exited" /\ raised = "ValueError"
    /\ fileStatus = "ok" /\ Qualifying(doc) # {}
    /\ ~configured /\ ~opened

\* C3 as stated: no failure of a run, the missing credential included, leaves main.
C3_NothingEscapes ==
    raised = NoError

\* C3 amended: a failure raised in the try block is caught, its diagnostic is
\* printed and main returns; the only exception that leaves main is the
\* ValueError of the missing credential, raised before the try block, before
\* anything is configured, opened or printed.
C3_TryFailuresCaught ==
    /\ raised # NoError =>
          /\ raised = "ValueError" /\ pc = "exited"
          /\ ApiKey \in {PyNone, ""}
          /\ ~configured /\ ~opened /\ printed = <<>>
    /\ (opened /\ fileStatus = "missing") =>
          /\ pc = "returned" /\ raised = NoError
          /\ printed = << "extracting annotations", "error: file not found" >>
    /\ (opened /\ fileStatus = "corrupt") =>
          /\ pc = "returned" /\ raised = NoError
          /\ printed = << "extracting annotations", "unexpected error" >>

C3_Witness ==
    /\ opened /\ fileStatus = "corrupt" /\ pc = "returned"
    /\ printed = << "extracting annotations", "unexpected error" >>

\* C4: a run with a valid credential that extracted at least one annotation
\* does not return normally without the summarizer having been given the list.
C4_SummarizerInvoked ==
    (pc = "returned" /\ raised = NoError /\ annotations # <<>>)
        => summarized = << annotations >>

-----------------------------------------------------------------------------
(* Properties of the publishing script, checked under SpecPublish *)

UploadRan == \E i \in 1..Len(commands) : commands[i] = "python -m twine upload"

BuildRan == \E i \in 1..Len(commands) : commands[i] = "python -m build"

EnvWarning == "warning: TWINE_USERNAME or TWINE_PASSWORD not set"

\* C9 as stated: the upload command runs only with both tools present and
\* both TWINE_USERNAME and TWINE_PASSWORD set.
C9_UploadGatedOnCredential ==
    UploadRan =>
        /\ {"build", "twine"} \subseteq installed
        /\ {"TWINE_USERNAME", "TWINE_PASSWORD"} \subseteq DOMAIN env

\* C9 amended: the upload command runs only with both tools present and after
\* a successful build; an unset or empty TWINE_USERNAME or TWINE_PASSWORD has
\* been answered with a warning and nothing else.
C9_UploadNeedsTools ==
    UploadRan =>
        /\ {"build", "twine"} \subseteq installed
        /\ BuildRan /\ "build" \in cmdOk
        /\ (\E i \in 1..Len(printed) : printed[i] = EnvWarning)
              <=> (\E v \in {"TWINE_USERNAME", "TWINE_PASSWORD"} :
                      v \notin DOMAIN env \/ env[v] = "")

C9_Witness ==
    /\ UploadRan /\ pc = "returned"
    /\ DOMAIN env = {}
    /\ \E i \in 1..Len(printed) : printed[i] = EnvWarning

=============================================================================
